---------------------------- MODULE Spec2Model ----------------------------
(***************************************************************************)
(* A model of tanita_parser.py: the TanitaParser class (CSV ingestion, row *)
(* decoding, chronological sorting, per-metric classification and the      *)
(* two-point comparison of generate_pdf_report) and the run of main.       *)
(*                                                                         *)
(* A Python str is a sequence of one-character strings, so that strip,     *)
(* replace, float() and strptime() are computed character by character.    *)
(* Dictionary keys are rendered as TLA+ strings (Str) so that they can be  *)
(* compared with the names of TANITA_MAPPINGS.  A float is a decimal       *)
(* number held as an integer count of 10^-Scale units; the alphabet of the *)
(* inputs has no exponent, "nan", "inf" or "_" so float() is exact on it.  *)
(***************************************************************************)
EXTENDS Integers, Sequences, FiniteSets, TLC

VARIABLES
    measurements,   \* self.measurements: list of dicts
    profiles,       \* self.profiles: dict profile_key -> dict
    pc,             \* position of the run: "main", "reading", "done"
    frame,          \* the active parse_csv_file call: file_path, file_type and the
                    \* loop's row (the last one yielded) and row_num (rows yielded)
    openFiles,      \* the file objects currently open
    printed,        \* the last message printed
    report,         \* what generate_pdf_report handed to the document
    owners          \* history: for each profile key, the path and the row index
                    \* of the row that was last stored under it

vars == <<measurements, profiles, pc, frame, openFiles, printed, report, owners>>

-----------------------------------------------------------------------------
(* Bounds of the model.                                                    *)

MaxStored == 2      \* rows retained in a run (measurements plus profiles)
MaxRows == 2        \* rows read from one file
MaxRowLen == 5      \* tokens of a row whose decoding is enumerated
MaxSortLen == 3     \* measurements of a collection whose sorting is enumerated
Scale == 2          \* decimal places a float keeps

-----------------------------------------------------------------------------
(* Python str operations.                                                  *)

RECURSIVE Str(_)
Str(s) == IF s = <<>> THEN "" ELSE Head(s) \o Str(Tail(s))

isspace(c) == c = " "

RECURSIVE lstrip(_)
lstrip(s) == IF s # <<>> /\ isspace(Head(s)) THEN lstrip(Tail(s)) ELSE s

RECURSIVE rstrip(_)
rstrip(s) ==
    IF s # <<>> /\ isspace(s[Len(s)]) THEN rstrip(SubSeq(s, 1, Len(s) - 1)) ELSE s

strip(s) == rstrip(lstrip(s))

RECURSIVE replace(_, _, _)
replace(s, old, new) ==
    IF s = <<>> THEN <<>>
    ELSE (IF Head(s) = old THEN new ELSE <<Head(s)>>) \o replace(Tail(s), old, new)

-----------------------------------------------------------------------------
(* The Code Table.                                                         *)

TANITA_MAPPINGS ==
    ("0" :> "Desconocido: 16") @@
    ("~0" :> "Unidad de longitud") @@
    ("~1" :> "Unidad de masa") @@
    ("~2" :> "Desconocido: 4") @@
    ("~3" :> "Desconocido: 3") @@
    ("Bt" :> "Modo atleta (0=Normal, 2=Atleta)") @@
    ("Wk" :> "Masa corporal (kg)") @@
    ("MI" :> "Índice de masa corporal (IMC)") @@
    ("MO" :> "Modelo") @@
    ("DT" :> "Fecha de medición") @@
    ("Ti" :> "Hora de medición") @@
    ("GE" :> "Género") @@
    ("AG" :> "Edad") @@
    ("Hm" :> "Altura (cm)") @@
    ("AL" :> "Nivel de actividad") @@
    ("FW" :> "Grasa corporal total %") @@
    ("Fr" :> "Grasa del brazo (derecho) %") @@
    ("Fl" :> "Grasa del brazo (izquierdo) %") @@
    ("FR" :> "Grasa de la pierna (derecha) %") @@
    ("FL" :> "Grasa de la pierna (izquierda) %") @@
    ("FT" :> "Grasa del torso %") @@
    ("mW" :> "Músculo corporal total %") @@
    ("mr" :> "Músculo del brazo (derecho) %") @@
    ("ml" :> "Músculo del brazo (izquierdo) %") @@
    ("mR" :> "Músculo de la pierna (derecha) %") @@
    ("mL" :> "Músculo de la pierna (izquierda) %") @@
    ("mT" :> "Músculo del torso %") @@
    ("bw" :> "Masa ósea estimada (kg)") @@
    ("IF" :> "Índice de grasa visceral") @@
    ("rA" :> "Edad metabólica estimada") @@
    ("rD" :> "Ingesta calórica diaria (ICD)") @@
    ("ww" :> "Agua corporal total %") @@
    ("CS" :> "Desconocido: BC")

-----------------------------------------------------------------------------
(* Python dict and os.path.                                                *)

\* d[k] = v
SetItem(d, k, v) == [q \in DOMAIN d \cup {k} |-> IF q = k THEN v ELSE d[q]]

\* d.get(k, default)
Get(d, k, default) == IF k \in DOMAIN d THEN d[k] ELSE default

\* a path is a directory and a file name
basename(file_path) == file_path.name

-----------------------------------------------------------------------------
(* TanitaParser._parse_measurement_row.                                    *)

\* range(0, len(row) - 1, 2), as 1-based positions of the codes
PairIndicesDropLast(row) == {i \in 1..(Len(row) - 2) : i % 2 = 1}
PairIndices(row) == {i \in 1..(Len(row) - 1) : i % 2 = 1}

\* the key a code is stored under
FieldKeyRaw(header) ==
    IF Str(header) \in DOMAIN TANITA_MAPPINGS
    THEN TANITA_MAPPINGS[Str(header)]
    ELSE Str(header)
FieldKey(header) ==
    IF Str(header) \in DOMAIN TANITA_MAPPINGS
    THEN TANITA_MAPPINGS[Str(header)]
    ELSE "Unknown_" \o Str(header)

\* one turn of the loop over the pairs
StorePairFirstWins(measurement, row, i) ==
    LET header == strip(row[i])
        value == IF i + 1 <= Len(row) THEN strip(row[i + 1]) ELSE <<>>
    IN  IF FieldKey(header) \in DOMAIN measurement THEN measurement
        ELSE SetItem(measurement, FieldKey(header), value)
StorePair(measurement, row, i) ==
    LET header == strip(row[i])
        value == IF i + 1 <= Len(row) THEN strip(row[i + 1]) ELSE <<>>
    IN  SetItem(measurement, FieldKey(header), value)

RECURSIVE DecodePairs(_, _, _)
DecodePairs(measurement, row, todo) ==
    IF todo = {} THEN measurement
    ELSE LET i == CHOOSE j \in todo : \A k \in todo : j <= k
         IN  DecodePairs(StorePair(measurement, row, i), row, todo \ {i})

\* the dict appended to self.measurements
MeasurementOf(row, file_path, row_num) ==
    DecodePairs(
        ("file" :> basename(file_path)) @@ ("row" :> row_num + 1) @@ ("raw_data" :> row),
        row, PairIndices(row))

-----------------------------------------------------------------------------
(* datetime.strptime(f"{fecha} {hora}", "%d/%m/%Y %H:%M:%S").              *)

DigitVal ==
    ("0" :> 0) @@ ("1" :> 1) @@ ("2" :> 2) @@ ("3" :> 3) @@ ("4" :> 4) @@
    ("5" :> 5) @@ ("6" :> 6) @@ ("7" :> 7) @@ ("8" :> 8) @@ ("9" :> 9)

isdigit(c) == c \in DOMAIN DigitVal

AllDigits(s) == s # <<>> /\ \A i \in 1..Len(s) : isdigit(s[i])

RECURSIVE IntOf(_)
IntOf(s) == IF s = <<>> THEN 0 ELSE 10 * IntOf(SubSeq(s, 1, Len(s) - 1)) + DigitVal[s[Len(s)]]

\* the pieces of s between the occurrences of sep
RECURSIVE Split(_, _)
Split(s, sep) ==
    IF s = <<>> THEN << <<>> >>
    ELSE LET rest == Split(Tail(s), sep)
         IN  IF Head(s) = sep THEN << <<>> >> \o rest
             ELSE << <<Head(s)>> \o Head(rest) >> \o Tail(rest)

\* the format's blank matches one or more blanks
RECURSIVE NonEmpty(_)
NonEmpty(ps) ==
    IF ps = <<>> THEN <<>>
    ELSE (IF Head(ps) = <<>> THEN <<>> ELSE <<Head(ps)>>) \o NonEmpty(Tail(ps))

\* a directive of one or two digits (%d %m %H %M %S) within lo..hi
Directive(s, lo, hi) == AllDigits(s) /\ Len(s) \in {1, 2} /\ IntOf(s) \in lo..hi

IsLeap(y) == (y % 4 = 0 /\ y % 100 # 0) \/ y % 400 = 0

DaysInMonth(y, m) ==
    IF m = 2 THEN (IF IsLeap(y) THEN 29 ELSE 28)
    ELSE IF m \in {4, 6, 9, 11} THEN 30 ELSE 31

\* datetime.min
DatetimeMin == <<1, 1, 1, 0, 0, 0>>

\* <<TRUE, datetime>> or <<FALSE, ...>> when strptime raises ValueError
Strptime(s) ==
    LET parts == NonEmpty(Split(s, " "))
        bad == <<FALSE, DatetimeMin>>
    IN  IF Len(parts) # 2 THEN bad
        ELSE LET dmy == Split(parts[1], "/")
                 hms == Split(parts[2], ":")
             IN  IF Len(dmy) # 3 \/ Len(hms) # 3 THEN bad
                 ELSE IF ~ /\ Directive(dmy[1], 1, 31)
                           /\ Directive(dmy[2], 1, 12)
                           /\ AllDigits(dmy[3]) /\ Len(dmy[3]) = 4 /\ IntOf(dmy[3]) >= 1
                           /\ Directive(hms[1], 0, 23)
                           /\ Directive(hms[2], 0, 59)
                           /\ Directive(hms[3], 0, 59)
                      THEN bad
                 ELSE IF IntOf(dmy[1]) > DaysInMonth(IntOf(dmy[3]), IntOf(dmy[2])) THEN bad
                 ELSE <<TRUE, <<IntOf(dmy[3]), IntOf(dmy[2]), IntOf(dmy[1]),
                                IntOf(hms[1]), IntOf(hms[2]), IntOf(hms[3])>> >>

\* comparison of two datetimes
RECURSIVE LexLess(_, _)
LexLess(a, b) ==
    IF a = <<>> THEN FALSE
    ELSE IF Head(a) # Head(b) THEN Head(a) < Head(b)
    ELSE LexLess(Tail(a), Tail(b))

DtLeq(a, b) == a = b \/ LexLess(a, b)

-----------------------------------------------------------------------------
(* TanitaParser._get_sorted_measurements.                                  *)

\* the key function of the sort
parse_datetime_max(measurement) ==
    LET fecha == Get(measurement, "Fecha de medición", <<>>)
        hora == Get(measurement, "Hora de medición", <<>>)
    IN  IF fecha # <<>> /\ hora # <<>>
        THEN LET r == Strptime(fecha \o <<" ">> \o hora)
             IN  IF r[1] THEN r[2] ELSE <<9999, 12, 31, 23, 59, 59>>
        ELSE <<9999, 12, 31, 23, 59, 59>>
parse_datetime(measurement) ==
    LET fecha == Get(measurement, "Fecha de medición", <<>>)
        hora == Get(measurement, "Hora de medición", <<>>)
    IN  IF fecha # <<>> /\ hora # <<>>
        THEN LET r == Strptime(fecha \o <<" ">> \o hora)
             IN  IF r[1] THEN r[2] ELSE DatetimeMin
        ELSE DatetimeMin

\* sorted(): the positions of the list in ascending, stable key order
InsertUnstable(idx, i, keys) ==
    LET before == Cardinality({j \in 1..Len(idx) : LexLess(keys[idx[j]], keys[i])})
    IN  SubSeq(idx, 1, before) \o <<i>> \o SubSeq(idx, before + 1, Len(idx))
InsertDescending(idx, i, keys) ==
    LET before == Cardinality({j \in 1..Len(idx) : DtLeq(keys[i], keys[idx[j]])})
    IN  SubSeq(idx, 1, before) \o <<i>> \o SubSeq(idx, before + 1, Len(idx))
Insert(idx, i, keys) ==
    LET before == Cardinality({j \in 1..Len(idx) : DtLeq(keys[idx[j]], keys[i])})
    IN  SubSeq(idx, 1, before) \o <<i>> \o SubSeq(idx, before + 1, Len(idx))

RECURSIVE SortedIndices(_, _)
SortedIndices(keys, n) ==
    IF n = 0 THEN <<>> ELSE Insert(SortedIndices(keys, n - 1), n, keys)

SortOrder(ms) == SortedIndices([i \in 1..Len(ms) |-> parse_datetime(ms[i])], Len(ms))

get_sorted_measurements(ms) == [i \in 1..Len(SortOrder(ms)) |-> ms[SortOrder(ms)[i]]]

-----------------------------------------------------------------------------
(* float(): the lenient conversions of generate_pdf_report.                *)

RECURSIVE Pow10(_)
Pow10(n) == IF n = 0 THEN 1 ELSE 10 * Pow10(n - 1)

Unit == Pow10(Scale)

\* the decimal number i.t, t a count of tenths
Dec(i, t) == i * Unit + t * Pow10(Scale - 1)

\* the digits after the point, as a count of 10^-Scale
FracOf(f) ==
    IF Len(f) >= Scale THEN IntOf(SubSeq(f, 1, Scale))
    ELSE IntOf(f) * Pow10(Scale - Len(f))

DigitsOrEmpty(s) == \A i \in 1..Len(s) : isdigit(s[i])

\* an optional value: <<>> is None, <<v>> is v
Some(v) == <<v>>
Absent == <<>>

\* float(s): Some(number), or Absent where float raises ValueError
Float(s) ==
    LET t == strip(s)
        signed == t # <<>> /\ Head(t) \in {"+", "-"}
        body == IF signed THEN Tail(t) ELSE t
        parts == Split(body, ".")
        ip == parts[1]
        fp == IF Len(parts) = 2 THEN parts[2] ELSE <<>>
    IN  IF /\ Len(parts) \in {1, 2}
           /\ DigitsOrEmpty(ip) /\ DigitsOrEmpty(fp)
           /\ (ip # <<>> \/ fp # <<>>)
        THEN LET mag == IntOf(ip) * Unit + FracOf(fp)
             IN  Some(IF signed /\ Head(t) = "-" THEN 0 - mag ELSE mag)
        ELSE Absent

\* measurement.get(key)
OptGet(d, k) == IF k \in DOMAIN d THEN Some(d[k]) ELSE Absent

\* str(v) of a str or of None
PyStr(opt) == IF opt = Absent THEN <<"N", "o", "n", "e">> ELSE opt[1]

\* float(str(v).replace("%", "").replace(",", "."))
FloatPctComma(opt) == Float(replace(replace(PyStr(opt), "%", <<>>), ",", <<".">>))

\* float(str(v).replace(",", "."))
FloatComma(opt) == Float(replace(PyStr(opt), ",", <<".">>))

Abs(x) == IF x < 0 THEN 0 - x ELSE x

-----------------------------------------------------------------------------
(* TanitaParser.generate_pdf_report: the per-measurement sections.         *)

UpperToLower ==
    ("A" :> "a") @@ ("B" :> "b") @@ ("C" :> "c") @@ ("D" :> "d") @@ ("E" :> "e") @@
    ("F" :> "f") @@ ("G" :> "g") @@ ("H" :> "h") @@ ("I" :> "i") @@ ("J" :> "j") @@
    ("K" :> "k") @@ ("L" :> "l") @@ ("M" :> "m") @@ ("N" :> "n") @@ ("O" :> "o") @@
    ("P" :> "p") @@ ("Q" :> "q") @@ ("R" :> "r") @@ ("S" :> "s") @@ ("T" :> "t") @@
    ("U" :> "u") @@ ("V" :> "v") @@ ("W" :> "w") @@ ("X" :> "x") @@ ("Y" :> "y") @@
    ("Z" :> "z")

lower(s) == [i \in 1..Len(s) |-> IF s[i] \in DOMAIN UpperToLower THEN UpperToLower[s[i]] ELSE s[i]]

\* the sex category the ranges are chosen by
SexoCaseSensitive(measurement) ==
    LET genero == Str(Get(measurement, "Género", <<>>))
    IN  IF genero \in {"1", "hombre", "m", "male"} THEN "hombre"
        ELSE IF genero \in {"2", "mujer", "f", "female"} THEN "mujer"
        ELSE "otro"
Sexo(measurement) ==
    LET genero == Str(lower(Get(measurement, "Género", <<>>)))
    IN  IF genero \in {"1", "hombre", "m", "male"} THEN "hombre"
        ELSE IF genero \in {"2", "mujer", "f", "female"} THEN "mujer"
        ELSE "otro"

\* a (lo, hi) range with whole bounds
Rg(lo, hi) == <<Dec(lo, 0), Dec(hi, 0)>>

GrasaRanges(sexo) ==
    IF sexo = "hombre" THEN <<Rg(0, 8), Rg(8, 20), Rg(20, 25), Rg(25, 45)>>
    ELSE IF sexo = "mujer" THEN <<Rg(0, 21), Rg(21, 33), Rg(33, 39), Rg(39, 55)>>
    ELSE <<Rg(0, 10), Rg(10, 20), Rg(20, 30), Rg(30, 50)>>

GrasaLabels == <<"Bajo", "Óptimo", "Alto", "Muy alto">>

ImcRanges == << <<Dec(0, 0), Dec(18, 5)>>, <<Dec(18, 5), Dec(25, 0)>>, Rg(25, 30), Rg(30, 40) >>

ImcLabels == <<"Bajo peso", "Normal", "Sobrepeso", "Obesidad">>

MuscRangesGap(sexo) ==
    IF sexo = "hombre" THEN <<Rg(0, 42), Rg(42, 49), Rg(49, 56), Rg(56, 70)>>
    ELSE IF sexo = "mujer" THEN <<Rg(0, 30), Rg(30, 36), Rg(38, 42), Rg(42, 60)>>
    ELSE <<Rg(0, 30), Rg(30, 40), Rg(40, 50), Rg(50, 70)>>
MuscRanges(sexo) ==
    IF sexo = "hombre" THEN <<Rg(0, 42), Rg(42, 49), Rg(49, 56), Rg(56, 70)>>
    ELSE IF sexo = "mujer" THEN <<Rg(0, 30), Rg(30, 36), Rg(36, 42), Rg(42, 60)>>
    ELSE <<Rg(0, 30), Rg(30, 40), Rg(40, 50), Rg(50, 70)>>

MuscLabels == <<"Muy baja", "Baja", "Óptima", "Alta">>

AguaRanges(sexo) ==
    IF sexo = "hombre" THEN <<Rg(0, 50), Rg(50, 65), Rg(65, 80)>>
    ELSE IF sexo = "mujer" THEN <<Rg(0, 45), Rg(45, 60), Rg(60, 80)>>
    ELSE <<Rg(0, 45), Rg(45, 60), Rg(60, 80)>>

AguaLabels == <<"Bajo", "Normal", "Alto">>

VisceralRanges == <<Rg(1, 10), Rg(10, 15), Rg(15, 30)>>

VisceralLabels == <<"Óptima", "Alta", "Muy alta">>

\* TanitaParser._plot_colored_bar: one coloured rectangle per range, from its
\* lower bound and as wide as the range, a vertical line at the value, and an
\* x axis that shows the first lower bound to the last upper bound
plot_colored_bar(value, ranges, labels) ==
    [barh |-> [i \in 1..Len(ranges) |->
                  [left |-> ranges[i][1], width |-> ranges[i][2] - ranges[i][1],
                   label |-> labels[i]]],
     axvline |-> value,
     xlim |-> <<ranges[1][1], ranges[Len(ranges)][2]>>]

\* the bar image of one metric: drawn only when the value is a number
Bar(value, ranges, labels) ==
    IF value # Absent
    THEN Some([value |-> value[1], ranges |-> ranges, labels |-> labels,
               image |-> plot_colored_bar(value[1], ranges, labels)])
    ELSE Absent

\* the names of the Code Table that start with "Desconocido:"
DesconocidoFields ==
    {"Desconocido: 16", "Desconocido: 4", "Desconocido: 3", "Desconocido: BC"}

\* the rows of the table of data of a measurement, without their order: the
\* fields with a name of the Code Table that is not a "Desconocido:" one, the
\* sex codes 1 and 2 shown as Hombre and Mujer
table_data(measurement) ==
    { <<field,
        IF field = "Género" /\ measurement[field] = <<"1">>
        THEN <<"H", "o", "m", "b", "r", "e">>
        ELSE IF field = "Género" /\ measurement[field] = <<"2">>
        THEN <<"M", "u", "j", "e", "r">>
        ELSE measurement[field]>> :
      field \in {k \in DOMAIN measurement :
                    /\ \E code \in DOMAIN TANITA_MAPPINGS : TANITA_MAPPINGS[code] = k
                    /\ k \notin DesconocidoFields} }

fat_keys ==
    <<"Grasa del torso %", "Grasa del brazo (derecho) %", "Grasa del brazo (izquierdo) %",
      "Grasa de la pierna (derecha) %", "Grasa de la pierna (izquierda) %">>

muscle_keys ==
    <<"Músculo del torso %", "Músculo del brazo (derecho) %",
      "Músculo del brazo (izquierdo) %", "Músculo de la pierna (derecha) %",
      "Músculo de la pierna (izquierda) %">>

\* the values of a segment radar: 0 for a missing value and for one that is no
\* number; the radar is drawn if any(values)
Radar(measurement, keys) ==
    LET values == [i \in 1..Len(keys) |->
                      LET v == OptGet(measurement, keys[i])
                      IN  IF v = Absent THEN 0
                          ELSE IF FloatPctComma(v) = Absent THEN 0
                          ELSE FloatPctComma(v)[1]]
    IN  IF \E i \in 1..Len(keys) : values[i] # 0 THEN Some(values) ELSE Absent

\* what one turn of the loop over self.measurements appends to the story
SectionOneTry(measurement) ==
    LET sexo == Sexo(measurement)
        grasa == FloatPctComma(OptGet(measurement, "Grasa corporal total %"))
        imc == FloatComma(OptGet(measurement, "Índice de masa corporal (IMC)"))
        musc == FloatPctComma(OptGet(measurement, "Músculo corporal total %"))
        agua == FloatPctComma(OptGet(measurement, "Agua corporal total %"))
        visceral == FloatComma(OptGet(measurement, "Índice de grasa visceral"))
        ok == Absent \notin {grasa, imc, musc, agua, visceral}
    IN  [file |-> Get(measurement, "file", "Archivo desconocido"),
         table_data |-> table_data(measurement),
         sexo |-> sexo,
         fat_radar |-> Radar(measurement, fat_keys),
         muscle_radar |-> Radar(measurement, muscle_keys),
         grasa |-> IF ok THEN Bar(grasa, GrasaRanges(sexo), GrasaLabels) ELSE Absent,
         imc |-> IF ok THEN Bar(imc, ImcRanges, ImcLabels) ELSE Absent,
         musc |-> IF ok THEN Bar(musc, MuscRanges(sexo), MuscLabels) ELSE Absent,
         agua |-> IF ok THEN Bar(agua, AguaRanges(sexo), AguaLabels) ELSE Absent,
         visceral |-> IF ok THEN Bar(visceral, VisceralRanges, VisceralLabels) ELSE Absent]
SectionImcBySex(measurement) ==
    LET sexo == Sexo(measurement)
    IN  [file |-> Get(measurement, "file", "Archivo desconocido"),
         table_data |-> table_data(measurement),
         sexo |-> sexo,
         fat_radar |-> Radar(measurement, fat_keys),
         muscle_radar |-> Radar(measurement, muscle_keys),
         grasa |-> Bar(FloatPctComma(OptGet(measurement, "Grasa corporal total %")),
                       GrasaRanges(sexo), GrasaLabels),
         imc |-> Bar(FloatComma(OptGet(measurement, "Índice de masa corporal (IMC)")),
                     IF sexo = "mujer"
                     THEN << <<Dec(0, 0), Dec(17, 5)>>, <<Dec(17, 5), Dec(24, 0)>>,
                             Rg(24, 29), Rg(29, 40) >>
                     ELSE ImcRanges,
                     ImcLabels),
         musc |-> Bar(FloatPctComma(OptGet(measurement, "Músculo corporal total %")),
                      MuscRanges(sexo), MuscLabels),
         agua |-> Bar(FloatPctComma(OptGet(measurement, "Agua corporal total %")),
                      AguaRanges(sexo), AguaLabels),
         visceral |-> Bar(FloatComma(OptGet(measurement, "Índice de grasa visceral")),
                          VisceralRanges, VisceralLabels)]
Section(measurement) ==
    LET sexo == Sexo(measurement)
    IN  [file |-> Get(measurement, "file", "Archivo desconocido"),
         table_data |-> table_data(measurement),
         sexo |-> sexo,
         fat_radar |-> Radar(measurement, fat_keys),
         muscle_radar |-> Radar(measurement, muscle_keys),
         grasa |-> Bar(FloatPctComma(OptGet(measurement, "Grasa corporal total %")),
                       GrasaRanges(sexo), GrasaLabels),
         imc |-> Bar(FloatComma(OptGet(measurement, "Índice de masa corporal (IMC)")),
                     ImcRanges, ImcLabels),
         musc |-> Bar(FloatPctComma(OptGet(measurement, "Músculo corporal total %")),
                      MuscRanges(sexo), MuscLabels),
         agua |-> Bar(FloatPctComma(OptGet(measurement, "Agua corporal total %")),
                      AguaRanges(sexo), AguaLabels),
         visceral |-> Bar(FloatComma(OptGet(measurement, "Índice de grasa visceral")),
                          VisceralRanges, VisceralLabels)]

-----------------------------------------------------------------------------
(* TanitaParser.generate_pdf_report: the comparison section.               *)

\* 0.1
Tenth == Dec(0, 1)

comparison_fields ==
    <<"Masa corporal (kg)", "Índice de masa corporal (IMC)", "Grasa corporal total %",
      "Músculo corporal total %", "Agua corporal total %", "Índice de grasa visceral",
      "Edad metabólica estimada", "Ingesta calórica diaria (ICD)">>

\* the colour of a difference in the comparison table
DiffColor(diff) ==
    IF Abs(diff) < Tenth THEN "gray" ELSE IF diff > 0 THEN "red" ELSE "green"

\* one row of the comparison table
ComparisonRow(prev_measurement, last_measurement, field) ==
    LET val1 == OptGet(prev_measurement, field)
        val2 == OptGet(last_measurement, field)
        num1 == FloatPctComma(val1)
        num2 == FloatPctComma(val2)
    IN  [field |-> field, val1 |-> val1, val2 |-> val2,
         diff |-> IF val1 # Absent /\ val2 # Absent /\ num1 # Absent /\ num2 # Absent
                  THEN Some([diff |-> num2[1] - num1[1],
                             color |-> DiffColor(num2[1] - num1[1])])
                  ELSE Absent]

\* TanitaParser._plot_comparison_chart: None, or the chart with its difference mark
plot_comparison_chart(measurement1, measurement2, field_name) ==
    LET value1 == OptGet(measurement1, field_name)
        value2 == OptGet(measurement2, field_name)
        val1 == FloatPctComma(value1)
        val2 == FloatPctComma(value2)
    IN  IF value1 = Absent \/ value2 = Absent THEN Absent
        ELSE IF val1 = Absent \/ val2 = Absent THEN Absent
        ELSE Some([val1 |-> val1[1], val2 |-> val2[1], diff |-> val2[1] - val1[1],
                   marked |-> Abs(val2[1] - val1[1]) > Tenth])

\* float(str(m.get(key, "0")).replace("%", "").replace(",", "."))
FloatOrZero(m, key) == FloatPctComma(Some(Get(m, key, <<"0">>)))

composition_keys ==
    <<"Grasa corporal total %", "Músculo corporal total %", "Agua corporal total %">>

\* the stacked chart of the previous and the current composition: one try block
\* around the floats of all its keys
CompositionOver(prev_measurement, last_measurement, keys) ==
    LET v1 == [i \in 1..Len(keys) |-> FloatOrZero(prev_measurement, keys[i])]
        v2 == [i \in 1..Len(keys) |-> FloatOrZero(last_measurement, keys[i])]
    IN  IF \E i \in 1..Len(keys) : v1[i] = Absent \/ v2[i] = Absent THEN Absent
        ELSE Some([keys |-> keys,
                   prev |-> [i \in 1..Len(keys) |-> v1[i][1]],
                   last |-> [i \in 1..Len(keys) |-> v2[i][1]]])

CompositionChart(prev_measurement, last_measurement) ==
    CompositionOver(prev_measurement, last_measurement, composition_keys)

\* the rows of the comparison table, one per field
ComparisonTable(prev_measurement, last_measurement, fields) ==
    [i \in 1..Len(fields) |-> ComparisonRow(prev_measurement, last_measurement, fields[i])]

\* the comparison section for a previous and a current measurement
ComparisonOf(prev_measurement, last_measurement) ==
    [last_measurement |-> last_measurement,
     prev_measurement |-> prev_measurement,
     table |-> ComparisonTable(prev_measurement, last_measurement, comparison_fields),
     weight_comparison |->
         plot_comparison_chart(prev_measurement, last_measurement, "Masa corporal (kg)"),
     imc_comparison |->
         plot_comparison_chart(prev_measurement, last_measurement,
                               "Índice de masa corporal (IMC)"),
     composition |-> CompositionChart(prev_measurement, last_measurement)]

\* the comparison section: the two latest of the sorted measurements, if there are two
ComparisonFirstTwo(ms) ==
    LET sorted_measurements == get_sorted_measurements(ms)
    IN  IF Len(sorted_measurements) >= 2
        THEN Some(ComparisonOf(sorted_measurements[1], sorted_measurements[2]))
        ELSE Absent
Comparison(ms) ==
    LET sorted_measurements == get_sorted_measurements(ms)
        n == Len(sorted_measurements)
    IN  IF n >= 2
        THEN Some(ComparisonOf(sorted_measurements[n - 1], sorted_measurements[n]))
        ELSE Absent

\* the story handed to the document
generate_pdf_report(ms) ==
    [total |-> Len(ms),
     sections |-> [i \in 1..Len(ms) |-> Section(ms[i])],
     comparison |-> Comparison(ms)]

-----------------------------------------------------------------------------
(* The inputs: the files a run can be given and the rows they can hold.    *)

Path(dir, name) == [dir |-> dir, name |-> name]

Paths == {Path("a", "T1.CSV"), Path("b", "T1.CSV"), Path("a", "T2.CSV")}

FileTypes == {"measurement", "profile"}

cDT == <<"D", "T">>
cTi == <<"T", "i">>
cWk == <<"W", "k">>
cMI == <<"M", "I">>
cFW == <<"F", "W">>
cmW == <<"m", "W">>
cGE == <<"G", "E">>
cww == <<"w", "w">>
cIF == <<"I", "F">>

Jan1 == <<"0", "1", "/", "0", "1", "/", "2", "0", "2", "4">>
Jan2 == <<"0", "2", "/", "0", "1", "/", "2", "0", "2", "4">>
Jan1Short == <<"1", "/", "1", "/", "2", "0", "2", "4">>
Feb31 == <<"3", "1", "/", "0", "2", "/", "2", "0", "2", "4">>
Year1 == <<"0", "1", "/", "0", "1", "/", "0", "0", "0", "1">>
Ten == <<"1", "0", ":", "0", "0", ":", "0", "0">>
Nine == <<"0", "9", ":", "0", "0", ":", "0", "0">>
NineShort == <<"9", ":", "5", ":", "7">>
Midnight == <<"0", "0", ":", "0", "0", ":", "0", "0">>

\* the rows a csv.reader yields in a run
RowPool ==
    { <<>>,
      << <<"x">> >>,
      <<cDT, Jan2, cTi, Nine, cWk, <<"8", "0", ",", "5">> >>,
      <<cWk, <<"8", "1">>, <<"y">> >> }

\* all sequences over S of length lo to hi
SeqsOf(S, lo, hi) == UNION {[1..n -> S] : n \in lo..hi}

-----------------------------------------------------------------------------
(* The run: main calls parse_csv_file for each file, then the report.      *)

Init ==
    /\ measurements = <<>>
    /\ profiles = <<>>
    /\ pc = "main"
    /\ frame = <<>>
    /\ openFiles = {}
    /\ printed = ""
    /\ report = <<>>
    /\ owners = <<>>

Stored == Len(measurements) + Cardinality(DOMAIN profiles)

\* parse_csv_file on a path that does not exist
ParseMissingFileAborts(file_path, file_type) ==
    /\ pc = "main"
    /\ printed' = "Error: El archivo no existe"
    /\ pc' = "done"
    /\ UNCHANGED <<measurements, profiles, frame, openFiles, report, owners>>
ParseMissingFile(file_path, file_type) ==
    /\ pc = "main"
    /\ printed' = "Error: El archivo no existe"
    /\ UNCHANGED <<measurements, profiles, pc, frame, openFiles, report, owners>>

\* parse_csv_file: open() raises
ParseOpenFails(file_path, file_type) ==
    /\ pc = "main"
    /\ printed' = "Error leyendo"
    /\ UNCHANGED <<measurements, profiles, pc, frame, openFiles, report, owners>>

\* parse_csv_file: the file is opened and the reader created
ParseOpen(file_path, file_type) ==
    /\ pc = "main"
    /\ pc' = "reading"
    /\ frame' = <<[file_path |-> file_path, file_type |-> file_type,
                   row_num |-> 0, row |-> Absent]>>
    /\ openFiles' = openFiles \cup {file_path}
    /\ UNCHANGED <<measurements, profiles, printed, report, owners>>

\* the guard of the loop body: not row or len(row) < 2
SkipsRowOnlyEmpty(row) == row = <<>>
SkipsRow(row) == row = <<>> \/ Len(row) < 2

\* the reader yields the next row: enumerate() counts it
Yield(row) == <<[frame[1] EXCEPT !.row_num = @ + 1, !.row = Some(row)]>>

\* a row with fewer than two tokens: continue
SkipRow(row) ==
    /\ pc = "reading"
    /\ frame[1].row_num < MaxRows
    /\ SkipsRow(row)
    /\ frame' = Yield(row)
    /\ UNCHANGED <<measurements, profiles, pc, openFiles, printed, report, owners>>

\* a row of a measurement file: _parse_measurement_row
ReadMeasurementRow(row) ==
    /\ pc = "reading"
    /\ frame[1].row_num < MaxRows
    /\ Stored < MaxStored
    /\ ~SkipsRow(row)
    /\ frame[1].file_type = "measurement"
    /\ measurements' =
           Append(measurements, MeasurementOf(row, frame[1].file_path, frame[1].row_num))
    /\ frame' = Yield(row)
    /\ UNCHANGED <<profiles, pc, openFiles, printed, report, owners>>

\* the dict stored for a profile row, and its key
profile_key(file_path, row_num) == <<basename(file_path), "_row_", row_num>>

ProfileOf(row, file_path, row_num) ==
    [file |-> basename(file_path), row |-> row_num + 1, data |-> row]

\* a row of a profile file: _parse_profile_row
ReadProfileRow(row) ==
    /\ pc = "reading"
    /\ frame[1].row_num < MaxRows
    /\ Stored < MaxStored
    /\ ~SkipsRow(row)
    /\ frame[1].file_type = "profile"
    /\ profiles' = SetItem(profiles, profile_key(frame[1].file_path, frame[1].row_num),
                           ProfileOf(row, frame[1].file_path, frame[1].row_num))
    /\ owners' = SetItem(owners, profile_key(frame[1].file_path, frame[1].row_num),
                         <<frame[1].file_path, frame[1].row_num>>)
    /\ frame' = Yield(row)
    /\ UNCHANGED <<measurements, pc, openFiles, printed, report>>

\* the reader is exhausted: the with block closes the file
EndOfFile ==
    /\ pc = "reading"
    /\ pc' = "main"
    /\ openFiles' = openFiles \ {frame[1].file_path}
    /\ frame' = <<>>
    /\ UNCHANGED <<measurements, profiles, printed, report, owners>>

\* the reader raises part-way: the with block closes the file, except prints
ReadFailsLeavesOpen ==
    /\ pc = "reading"
    /\ pc' = "main"
    /\ printed' = "Error leyendo"
    /\ frame' = <<>>
    /\ UNCHANGED <<measurements, profiles, openFiles, report, owners>>
ReadFailsAborts ==
    /\ pc = "reading"
    /\ pc' = "done"
    /\ openFiles' = openFiles \ {frame[1].file_path}
    /\ printed' = "Error leyendo"
    /\ frame' = <<>>
    /\ UNCHANGED <<measurements, profiles, report, owners>>
ReadFails ==
    /\ pc = "reading"
    /\ pc' = "main"
    /\ openFiles' = openFiles \ {frame[1].file_path}
    /\ printed' = "Error leyendo"
    /\ frame' = <<>>
    /\ UNCHANGED <<measurements, profiles, report, owners>>

\* generate_pdf_report
GeneratePdfReportSortsInPlace ==
    /\ pc = "main"
    /\ measurements' = get_sorted_measurements(measurements)
    /\ report' = <<generate_pdf_report(measurements)>>
    /\ printed' = "Reporte generado exitosamente"
    /\ pc' = "done"
    /\ UNCHANGED <<profiles, frame, openFiles, owners>>
GeneratePdfReport ==
    /\ pc = "main"
    /\ report' = <<generate_pdf_report(measurements)>>
    /\ printed' = "Reporte generado exitosamente"
    /\ pc' = "done"
    /\ UNCHANGED <<measurements, profiles, frame, openFiles, owners>>

\* main: there are measurements, the report is generated
MainReport ==
    /\ measurements # <<>>
    /\ GeneratePdfReport

\* main: no measurements were found
MainNoMeasurements ==
    /\ pc = "main"
    /\ measurements = <<>>
    /\ printed' = "No se encontraron mediciones para procesar."
    /\ pc' = "done"
    /\ UNCHANGED <<measurements, profiles, frame, openFiles, report, owners>>

Next ==
    \/ \E file_path \in Paths, file_type \in FileTypes :
           \/ ParseMissingFile(file_path, file_type)
           \/ ParseOpenFails(file_path, file_type)
           \/ ParseOpen(file_path, file_type)
    \/ \E row \in RowPool :
           \/ SkipRow(row)
           \/ ReadMeasurementRow(row)
           \/ ReadProfileRow(row)
    \/ EndOfFile
    \/ ReadFails
    \/ MainReport
    \/ MainNoMeasurements

Spec == Init /\ [][Next]_vars

-----------------------------------------------------------------------------
(* Row decoding on its own: one row of an open measurement file, drawn     *)
(* from every token sequence of up to MaxRowLen tokens.                    *)

DecodeTokens ==
    { cWk, <<" ", "W", "k", " ">>, <<"z", "z">>, <<>>, <<" ", "1">> }

DecodeRows == SeqsOf(DecodeTokens, 0, MaxRowLen)

DecodePath == Path("a", "T1.CSV")

InitDecode ==
    /\ measurements = <<>>
    /\ profiles = <<>>
    /\ pc = "reading"
    /\ frame = <<[file_path |-> DecodePath, file_type |-> "measurement",
                  row_num |-> 0, row |-> Absent]>>
    /\ openFiles = {DecodePath}
    /\ printed = ""
    /\ report = <<>>
    /\ owners = <<>>

\* the first turn of the loop over the reader
DecodeRow(row) ==
    /\ frame[1].row_num = 0
    /\ \/ SkipRow(row)
       \/ ReadMeasurementRow(row)

NextDecode == \E row \in DecodeRows : DecodeRow(row)

SpecDecode == InitDecode /\ [][NextDecode]_vars

-----------------------------------------------------------------------------
(* Row decoding of rows whose codes spell the keys written at creation:    *)
(* one row of an open measurement file.                                    *)

ProvenanceTokens ==
    { <<"f", "i", "l", "e">>, <<" ", "r", "o", "w">>,
      <<"r", "a", "w", "_", "d", "a", "t", "a">>, cWk, <<"8", "1">> }

ProvenanceRows == SeqsOf(ProvenanceTokens, 0, MaxRowLen)

NextProvenance == \E row \in ProvenanceRows : DecodeRow(row)

SpecProvenance == InitDecode /\ [][NextProvenance]_vars

-----------------------------------------------------------------------------
(* The sorter and the report on their own: a collection decoded from up to *)
(* MaxSortLen rows of one file, then generate_pdf_report.                  *)

SortRowPool ==
    { <<cDT, Jan2, cTi, Nine>>,
      <<cDT, Jan1, cTi, Ten>>,
      <<cDT, Jan1Short, cTi, NineShort>>,
      <<cDT, Year1, cTi, Midnight>>,
      <<cDT, Feb31, cTi, Ten>>,
      <<cDT, Jan2, cTi, <<>> >>,
      <<cWk, <<"8", "1">> >> }

\* self.measurements after a file of these rows was parsed
Decoded(rows) == [i \in 1..Len(rows) |-> MeasurementOf(rows[i], DecodePath, i - 1)]

InitSort ==
    /\ measurements \in {Decoded(rows) : rows \in SeqsOf(SortRowPool, 0, MaxSortLen)}
    /\ profiles = <<>>
    /\ pc = "main"
    /\ frame = <<>>
    /\ openFiles = {}
    /\ printed = ""
    /\ report = <<>>
    /\ owners = <<>>

NextSort == GeneratePdfReport

SpecSort == InitSort /\ [][NextSort]_vars

-----------------------------------------------------------------------------
(* The report over a previous and a current measurement whose values of    *)
(* BMI, fat and muscle are missing, well formed or malformed.  The values  *)
(* are such that their differences are exact in binary floating point      *)
(* (0.1 - 0) or far from the 0.1 threshold.                                *)

ImcValues ==
    { Absent, Some(<<"2", "4", ",", "0">>), Some(<<"2", "5", ".", "2">>),
      Some(<<"0">>), Some(<<"0", ".", "1">>), Some(<<"x">>), Some(<<"2", "4", "%">>) }

FatValues ==
    { Absent, Some(<<"2", "0", "%">>), Some(<<>>), Some(<<"1", "9", ",", "9">>) }

MuscleValues == { Absent, Some(<<"4", "0">>), Some(<<"1", ".", "2", ".", "3">>) }

\* the code and the value of a field the device wrote, nothing for one it did not
Pair(code, value) == IF value = Absent THEN <<>> ELSE <<code, value[1]>>

\* the rows of those values that the loop over the reader does not skip
NumericRows ==
    { row \in { Pair(cMI, imc) \o Pair(cFW, fat) \o Pair(cmW, musc) :
                  imc \in ImcValues, fat \in FatValues, musc \in MuscleValues } :
          ~SkipsRow(row) }

InitNumeric ==
    /\ measurements \in {Decoded(<<r1, r2>>) : r1 \in NumericRows, r2 \in NumericRows}
    /\ profiles = <<>>
    /\ pc = "main"
    /\ frame = <<>>
    /\ openFiles = {}
    /\ printed = ""
    /\ report = <<>>
    /\ owners = <<>>

NextNumeric == GeneratePdfReport

SpecNumeric == InitNumeric /\ [][NextNumeric]_vars

-----------------------------------------------------------------------------
(* The report over one measurement with a sex value and one classified     *)
(* metric whose value is at, just below or beyond a bound of a range.      *)

DigitChars == <<"0", "1", "2", "3", "4", "5", "6", "7", "8", "9">>

\* the decimal digits of a natural number
RECURSIVE NatText(_)
NatText(n) == IF n < 10 THEN <<DigitChars[n + 1]>> ELSE NatText(n \div 10) \o <<DigitChars[(n % 10) + 1]>>

\* the k last decimal digits of a natural number
RECURSIVE FracText(_, _)
FracText(n, k) == IF k = 0 THEN <<>> ELSE FracText(n \div 10, k - 1) \o <<DigitChars[(n % 10) + 1]>>

\* the text the device writes for a number of 10^-Scale units, with a decimal comma
DecimalText(u) ==
    (IF u < 0 THEN <<"-">> ELSE <<>>)
        \o NatText(Abs(u) \div Unit) \o <<",">> \o FracText(Abs(u) % Unit, Scale)

SexCategories == {"hombre", "mujer", "otro"}

\* the numbers at, one unit below and one unit above the bounds of some ranges
AroundBounds(ranges) ==
    UNION { {ranges[i][1] - 1, ranges[i][1], ranges[i][1] + 1,
             ranges[i][2] - 1, ranges[i][2], ranges[i][2] + 1} : i \in 1..Len(ranges) }

\* the code of each classified metric with the values it is given
ClassifyInputs ==
    UNION { {<<cFW, DecimalText(u)>> : u \in AroundBounds(GrasaRanges(sexo))} \cup
            {<<cmW, DecimalText(u)>> : u \in AroundBounds(MuscRanges(sexo))} \cup
            {<<cww, DecimalText(u)>> : u \in AroundBounds(AguaRanges(sexo))}
            : sexo \in SexCategories }
    \cup {<<cMI, DecimalText(u)>> : u \in AroundBounds(ImcRanges)}
    \cup {<<cIF, DecimalText(u)>> : u \in AroundBounds(VisceralRanges)}

GeneroValues ==
    { Absent, Some(<<>>), Some(<<"1">>), Some(<<"2">>), Some(<<"3">>),
      Some(<<"m">>), Some(<<"F">>), Some(<<"M", "a", "l", "e">>),
      Some(<<"H", "O", "M", "B", "R", "E">>), Some(<<"M", "u", "j", "e", "r">>),
      Some(<<"f", "e", "m", "a", "l", "e">>), Some(<<"x">>),
      Some(<<"m", "a", "l", "e", "s">>) }

ClassifyRows == {Pair(cGE, genero) \o input : genero \in GeneroValues, input \in ClassifyInputs}

InitClassify ==
    /\ measurements \in {Decoded(<<row>>) : row \in ClassifyRows}
    /\ profiles = <<>>
    /\ pc = "main"
    /\ frame = <<>>
    /\ openFiles = {}
    /\ printed = ""
    /\ report = <<>>
    /\ owners = <<>>

NextClassify == GeneratePdfReport

SpecClassify == InitClassify /\ [][NextClassify]_vars

-----------------------------------------------------------------------------
(* Claims.                                                                 *)

ProvenanceKeys == {"file", "row", "raw_data"}

\* the key the claim expects for the code at position i of a row
ExpectedKey(row, i) ==
    LET code == Str(strip(row[i]))
    IN  IF code \in DOMAIN TANITA_MAPPINGS THEN TANITA_MAPPINGS[code]
        ELSE "Unknown_" \o code

\* the positions of the codes of the complete pairs of a row
CompletePairs(row) == {2 * k - 1 : k \in 1..(Len(row) \div 2)}

\* C1: for every measurement decoded from a row of at least 2 tokens, the
\* field keys added to it are exactly the keys of the row's complete
\* (code, value) pairs, each code under its Code Table name or under
\* Unknown_<code>; no pair is dropped and a trailing unpaired token adds no key.
C1_KeysAreExactlyThePairs ==
    \A n \in 1..Len(measurements) :
        LET m == measurements[n]
            row == m["raw_data"]
        IN  Len(row) >= 2 =>
                (DOMAIN m) \ ProvenanceKeys = {ExpectedKey(row, i) : i \in CompletePairs(row)}

\* C1 witness: a row of odd length with a mapped code, an unknown code and a
\* trailing token has been decoded.
C1_Witness ==
    \E n \in 1..Len(measurements) :
        LET m == measurements[n]
            row == m["raw_data"]
        IN  /\ Len(row) = 5
            /\ "Masa corporal (kg)" \in DOMAIN m
            /\ "Unknown_zz" \in DOMAIN m
            /\ Str(strip(row[5])) = "1"
            /\ "Unknown_1" \notin DOMAIN m

\* C2: in every decoded measurement, the value stored under a field key is the
\* trimmed value of the last pair of the row that resolves to that key.
C2_LastWriteWins ==
    \A n \in 1..Len(measurements) :
        LET m == measurements[n]
            row == m["raw_data"]
        IN  \A i \in CompletePairs(row) :
                (\A j \in CompletePairs(row) :
                    j > i => ExpectedKey(row, j) # ExpectedKey(row, i))
                => m[ExpectedKey(row, i)] = strip(row[i + 1])

\* C2 witness: a decoded row holds two pairs that resolve to the same key
\* with different trimmed values, and the measurement was appended.
C2_Witness ==
    \E n \in 1..Len(measurements) :
        LET m == measurements[n]
            row == m["raw_data"]
        IN  \E i, j \in CompletePairs(row) :
                /\ i < j
                /\ ExpectedKey(row, i) = ExpectedKey(row, j)
                /\ strip(row[i + 1]) # strip(row[j + 1])
                /\ m[ExpectedKey(row, j)] = strip(row[j + 1])

\* a row the claim calls too short
ShortRow(row) == Len(row) < 2

\* C3: a row that is empty or has fewer than 2 tokens is skipped for both
\* record types: the step that reads it changes neither the measurements nor
\* the profiles, prints nothing, and leaves the run reading the same file at
\* the next row.
C3_ShortRowSkipped ==
    [][(pc = "reading" /\ frame' # <<>> /\ frame' # frame
            /\ ShortRow(frame'[1].row[1]))
        => /\ measurements' = measurements
           /\ profiles' = profiles
           /\ printed' = printed
           /\ pc' = "reading"
           /\ frame'[1].file_path = frame[1].file_path
           /\ frame'[1].row_num = frame[1].row_num + 1
           /\ openFiles' = openFiles]_vars

\* C3 witness: a one-token row has just been skipped as the second row of a
\* file whose first row was retained, and the file is still being read.
C3_Witness ==
    /\ pc = "reading"
    /\ frame[1].row_num = 2
    /\ frame[1].row = Some(<< <<"x">> >>)
    /\ Stored = 1
    /\ frame[1].file_path \in openFiles

\* the values of a list
Range(f) == {f[i] : i \in DOMAIN f}

\* the metrics that are classified, with the bar each one gets in a section
ClassifiedMetrics ==
    { "Grasa corporal total %", "Índice de masa corporal (IMC)",
      "Músculo corporal total %", "Agua corporal total %", "Índice de grasa visceral" }

BarOf(section, metric) ==
    IF metric = "Grasa corporal total %" THEN section.grasa
    ELSE IF metric = "Índice de masa corporal (IMC)" THEN section.imc
    ELSE IF metric = "Músculo corporal total %" THEN section.musc
    ELSE IF metric = "Agua corporal total %" THEN section.agua
    ELSE section.visceral

\* a raw value of the kinds the claim lists: empty, more than one decimal
\* point, or with a character that is no part of a number
Malformed(raw) ==
    \/ raw = <<>>
    \/ Cardinality({i \in 1..Len(raw) : raw[i] \in {",", "."}}) >= 2
    \/ \E i \in 1..Len(raw) : ~isdigit(raw[i]) /\ raw[i] \notin {",", ".", "%", "+", "-", " "}

\* digits with at most one decimal separator between them
PlainDecimal(raw) ==
    LET seps == {i \in 1..Len(raw) : raw[i] \in {",", "."}}
    IN  /\ raw # <<>>
        /\ \A i \in 1..Len(raw) : isdigit(raw[i]) \/ i \in seps
        /\ Cardinality(seps) <= 1
        /\ 1 \notin seps /\ Len(raw) \notin seps

\* a plain decimal, possibly with a trailing percent sign
PlainPercent(raw) ==
    \/ PlainDecimal(raw)
    \/ raw # <<>> /\ raw[Len(raw)] = "%" /\ PlainDecimal(SubSeq(raw, 1, Len(raw) - 1))

\* the measurement with no metric but the given one
Only(measurement, metric) ==
    [k \in DOMAIN measurement \ ((ClassifiedMetrics \cup Range(comparison_fields)) \ {metric})
        |-> measurement[k]]

\* C4: normalization never raises: the report is produced whatever the raw
\* values are, a missing or malformed value (empty, several decimal points,
\* non-numeric characters) makes exactly its own metric's bar or table
\* difference absent, and every other metric of the measurement is classified
\* and compared as it is when it stands alone.
C4_FailureOmitsOnlyThatMetric ==
    pc = "done" =>
        /\ Len(report[1].sections) = Len(measurements)
        /\ \A i \in 1..Len(measurements) : \A metric \in ClassifiedMetrics :
               LET m == measurements[i]
                   bar == BarOf(report[1].sections[i], metric)
               IN  /\ (metric \notin DOMAIN m \/ Malformed(m[metric])) => bar = Absent
                   /\ (metric \in DOMAIN m /\ PlainDecimal(m[metric])) => bar # Absent
                   /\ (metric \in DOMAIN m /\ PlainPercent(m[metric])
                           /\ metric \in Range(composition_keys)) => bar # Absent
                   /\ bar = BarOf(Section(Only(m, metric)), metric)
        /\ report[1].comparison # Absent =>
               LET c == report[1].comparison[1]
                   prev == c.prev_measurement
                   last == c.last_measurement
               IN  \A k \in 1..Len(comparison_fields) :
                       LET field == comparison_fields[k]
                       IN  /\ c.table[k].field = field
                           /\ (\E m \in {prev, last} : field \notin DOMAIN m \/ Malformed(m[field]))
                                  => c.table[k].diff = Absent
                           /\ (\A m \in {prev, last} : field \in DOMAIN m /\ PlainPercent(m[field]))
                                  => c.table[k].diff # Absent
                           /\ c.table[k] = ComparisonRow(Only(prev, field), Only(last, field), field)

\* C4 witness: a report over a measurement with an empty fat value, a muscle
\* value with two decimal points and a BMI of 24,0, and one with a non-numeric
\* BMI and no muscle value: only the BMI of the first and the fat of the second
\* are classified, and no difference is computed.
C4_Witness ==
    /\ pc = "done"
    /\ Len(measurements) = 2
    /\ OptGet(measurements[1], "Grasa corporal total %") = Some(<<>>)
    /\ OptGet(measurements[1], "Músculo corporal total %") = Some(<<"1", ".", "2", ".", "3">>)
    /\ OptGet(measurements[2], "Índice de masa corporal (IMC)") = Some(<<"x">>)
    /\ OptGet(measurements[2], "Músculo corporal total %") = Absent
    /\ report[1].sections[1].grasa = Absent
    /\ report[1].sections[1].musc = Absent
    /\ report[1].sections[1].imc # Absent /\ report[1].sections[1].imc[1].value = Dec(24, 0)
    /\ report[1].sections[2].imc = Absent
    /\ report[1].sections[2].grasa # Absent /\ report[1].sections[2].grasa[1].value = Dec(20, 0)
    /\ \A k \in 1..Len(comparison_fields) : report[1].comparison[1].table[k].diff = Absent

\* the injective maps of 1..n onto itself
IndexPermutations(n) == {p \in [1..n -> 1..n] : \A i, j \in 1..n : p[i] = p[j] => i = j}

\* C5: the chronological sorter returns a permutation of the collection (each
\* measurement exactly once), in ascending order of the sort key.
C5_SortedIsOrderedPermutation ==
    LET s == get_sorted_measurements(measurements)
        n == Len(measurements)
    IN  /\ Len(s) = n
        /\ \E p \in IndexPermutations(n) : \A i \in 1..n : s[i] = measurements[p[i]]
        /\ \A i \in 1..(Len(s) - 1) : DtLeq(parse_datetime(s[i]), parse_datetime(s[i + 1]))

\* C5 witness: 02/01/2024 09:00:00 was appended first, 1/1/2024 9:5:7 last and
\* 01/01/2024 10:00:00 between them; the sorter reverses the three.
C5_Witness ==
    /\ Len(measurements) = 3
    /\ OptGet(measurements[1], "Fecha de medición") = Some(Jan2)
    /\ OptGet(measurements[2], "Fecha de medición") = Some(Jan1)
    /\ OptGet(measurements[3], "Fecha de medición") = Some(Jan1Short)
    /\ get_sorted_measurements(measurements)
           = <<measurements[3], measurements[2], measurements[1]>>

\* the claim's reading of a measurement whose timestamp parses
Parsable(m) ==
    /\ "Fecha de medición" \in DOMAIN m /\ m["Fecha de medición"] # <<>>
    /\ "Hora de medición" \in DOMAIN m /\ m["Hora de medición"] # <<>>
    /\ Strptime(m["Fecha de medición"] \o <<" ">> \o m["Hora de medición"])[1]

ParsedKey(m) == Strptime(m["Fecha de medición"] \o <<" ">> \o m["Hora de medición"])[2]

\* C6 as stated: every measurement without a parsable timestamp is placed
\* before every measurement with a parsable timestamp.
C6_UnparsableBeforeEveryParsable ==
    LET s == get_sorted_measurements(measurements)
    IN  \A i, j \in 1..Len(s) : (~Parsable(s[i]) /\ Parsable(s[j])) => i < j

\* C6 amended: a measurement without a parsable timestamp has the minimum
\* timestamp as key, is placed before every measurement whose parsed timestamp
\* is later than the minimum timestamp, and stays in the sorted output.
C6_UnparsableFirst ==
    LET s == get_sorted_measurements(measurements)
    IN  /\ \A i \in 1..Len(s) : ~Parsable(s[i]) => parse_datetime(s[i]) = DatetimeMin
        /\ \A i, j \in 1..Len(s) :
               (~Parsable(s[i]) /\ Parsable(s[j]) /\ ParsedKey(s[j]) # DatetimeMin) => i < j
        /\ \A k \in 1..Len(measurements) :
               ~Parsable(measurements[k]) => \E i \in 1..Len(s) : s[i] = measurements[k]

\* C6 witness: measurements with an impossible date (31/02), an empty time and
\* no date at all were appended after a dated one, and both sort before it.
C6_Witness ==
    LET s == get_sorted_measurements(measurements)
    IN  /\ Len(measurements) = 3
        /\ Parsable(measurements[1]) /\ ParsedKey(measurements[1]) # DatetimeMin
        /\ ~Parsable(measurements[2]) /\ "Fecha de medición" \in DOMAIN measurements[2]
        /\ ~Parsable(measurements[3]) /\ "Fecha de medición" \notin DOMAIN measurements[3]
        /\ s = <<measurements[2], measurements[3], measurements[1]>>

\* C7: the sort is stable: two measurements with the same sort key keep, in
\* the sorted output, the order in which they were appended.
C7_SortIsStable ==
    LET s == get_sorted_measurements(measurements)
    IN  \A a, b \in 1..Len(measurements) :
            (a < b /\ parse_datetime(measurements[a]) = parse_datetime(measurements[b]))
            => \E i, j \in 1..Len(s) :
                   i < j /\ s[i] = measurements[a] /\ s[j] = measurements[b]

\* C7 witness: two measurements with the same key were appended with an
\* earlier-dated one between them, so the sort moves them and keeps their order.
C7_Witness ==
    /\ Len(measurements) = 3
    /\ parse_datetime(measurements[1]) = parse_datetime(measurements[3])
    /\ LexLess(parse_datetime(measurements[2]), parse_datetime(measurements[1]))
    /\ measurements[1] # measurements[3]
    /\ get_sorted_measurements(measurements)
           = <<measurements[2], measurements[1], measurements[3]>>

\* C8: the report holds a comparison exactly when the sorter's output has at
\* least two measurements, and the comparison is of its second-to-last
\* (previous) and last (current) elements; with fewer the report is still made.
C8_ComparesLatestTwo ==
    pc = "done" =>
        LET s == get_sorted_measurements(measurements)
            n == Len(s)
            c == report[1].comparison
        IN  /\ (c # Absent) <=> (n >= 2)
            /\ c # Absent =>
                   /\ c[1].last_measurement = s[n]
                   /\ c[1].prev_measurement = s[n - 1]
                   /\ \A k \in 1..Len(comparison_fields) :
                          /\ c[1].table[k].val1 = OptGet(s[n - 1], comparison_fields[k])
                          /\ c[1].table[k].val2 = OptGet(s[n], comparison_fields[k])

\* C8 witness: a report over three measurements whose latest two are not the
\* last two appended.
C8_Witness ==
    /\ pc = "done"
    /\ Len(measurements) = 3
    /\ report[1].comparison # Absent
    /\ report[1].comparison[1].last_measurement = measurements[1]
    /\ report[1].comparison[1].prev_measurement = measurements[3]
\* the number a compared value normalizes to
NumberOf(measurement, field) == FloatPctComma(OptGet(measurement, field))[1]

\* C9: wherever a comparison has a delta, the delta is current minus previous
\* and the comparison is flagged as significant exactly when |delta| > 0.1, in
\* the comparison table (a difference not printed in gray) and in the
\* comparison charts (the difference mark) alike.
C9_SignificantExactlyAboveTenth ==
    (pc = "done" /\ report[1].comparison # Absent) =>
        LET c == report[1].comparison[1]
            prev == c.prev_measurement
            last == c.last_measurement
            charts == <<c.weight_comparison, c.imc_comparison>>
        IN  /\ \A k \in 1..Len(comparison_fields) :
                   c.table[k].diff # Absent =>
                       LET delta == NumberOf(last, comparison_fields[k])
                                        - NumberOf(prev, comparison_fields[k])
                       IN  /\ c.table[k].diff[1].diff = delta
                           /\ (c.table[k].diff[1].color # "gray") <=> (Abs(delta) > Tenth)
            /\ \A k \in 1..2 :
                   charts[k] # Absent =>
                       LET delta == NumberOf(last, comparison_fields[k])
                                        - NumberOf(prev, comparison_fields[k])
                       IN  /\ charts[k][1].diff = delta
                           /\ charts[k][1].marked <=> (Abs(delta) > Tenth)

\* a compared metric that one of the two measurements lacks or whose value
\* does not normalize
Fails(prev, last, field) ==
    \E m \in {prev, last} : OptGet(m, field) = Absent \/ FloatPctComma(OptGet(m, field)) = Absent

Without(fields, field) == SelectSeq(fields, LAMBDA f : f # field)

IndexOf(fields, field) == CHOOSE i \in 1..Len(fields) : fields[i] = field

\* what the composition chart shows of one metric
Component(chart, field) ==
    IF chart = Absent THEN Absent
    ELSE LET i == IndexOf(chart[1].keys, field)
         IN  Some(<<chart[1].prev[i], chart[1].last[i]>>)

\* C10: a compared metric that the previous or the current measurement lacks,
\* or whose value fails normalization, has no comparison (no difference in the
\* table, no comparison chart, no component in the composition chart), and
\* what is compared of every other metric is what it would be with the
\* failing metric taken out of the list.
C10_FailingMetricAloneIsOmitted ==
    (pc = "done" /\ report[1].comparison # Absent) =>
        LET c == report[1].comparison[1]
            prev == c.prev_measurement
            last == c.last_measurement
        IN  \A f \in Range(comparison_fields) :
                Fails(prev, last, f) =>
                    /\ c.table[IndexOf(comparison_fields, f)].diff = Absent
                    /\ f = "Masa corporal (kg)" => c.weight_comparison = Absent
                    /\ f = "Índice de masa corporal (IMC)" => c.imc_comparison = Absent
                    /\ f \in Range(composition_keys) => Component(c.composition, f) = Absent
                    /\ \A g \in Range(comparison_fields) \ {f} :
                           /\ c.table[IndexOf(comparison_fields, g)]
                                  = ComparisonTable(prev, last, Without(comparison_fields, f))
                                        [IndexOf(Without(comparison_fields, f), g)]
                           /\ g \in Range(composition_keys) =>
                                  Component(c.composition, g)
                                      = Component(CompositionOver(prev, last,
                                                      Without(composition_keys, f)), g)

\* the bars a section holds, by metric
BarsOf(section) == {BarOf(section, metric) : metric \in ClassifiedMetrics} \ {Absent}

\* the buckets a bar image assigns its value to: those whose rectangle the
\* value line lies in
MarkedBuckets(image) ==
    {i \in DOMAIN image.barh :
        /\ image.barh[i].left <= image.axvline
        /\ image.axvline <= image.barh[i].left + image.barh[i].width}

\* C11: buckets are closed below and open above: a value equal to the lower
\* bound of a bucket is classified into that bucket alone, and a value just
\* below it into the preceding bucket alone; male body fat 8.0 is "Óptimo".
C11_BucketsClosedOpen ==
    pc = "done" =>
        \A k \in 1..Len(report[1].sections) : \A bar \in BarsOf(report[1].sections[k]) :
            LET b == bar[1]
            IN  /\ \A i \in 1..Len(b.ranges) :
                       /\ b.value = b.ranges[i][1] => MarkedBuckets(b.image) = {i}
                       /\ (i > 1 /\ b.value = b.ranges[i][1] - 1)
                              => MarkedBuckets(b.image) = {i - 1}
                /\ (b.ranges = GrasaRanges("hombre") /\ b.labels = GrasaLabels
                        /\ b.value = Dec(8, 0))
                       => {b.image.barh[i].label : i \in MarkedBuckets(b.image)} = {"Óptimo"}

\* C12: a value below the first lower bound or at or above the last upper
\* bound of its partition is classified into the nearest edge bucket, and the
\* bar is still produced.
C12_OutsideClampsToEdge ==
    pc = "done" =>
        \A k \in 1..Len(report[1].sections) :
            /\ \A metric \in ClassifiedMetrics :
                   (metric \in DOMAIN measurements[k] /\ PlainDecimal(measurements[k][metric]))
                       => BarOf(report[1].sections[k], metric) # Absent
            /\ \A bar \in BarsOf(report[1].sections[k]) :
                   LET b == bar[1]
                       n == Len(b.ranges)
                   IN  /\ b.value < b.ranges[1][1] => MarkedBuckets(b.image) = {1}
                       /\ b.value >= b.ranges[n][2] => MarkedBuckets(b.image) = {n}

MaleWords ==
    { <<"1">>, <<"h", "o", "m", "b", "r", "e">>, <<"m">>, <<"m", "a", "l", "e">> }

FemaleWords ==
    { <<"2">>, <<"m", "u", "j", "e", "r">>, <<"f">>, <<"f", "e", "m", "a", "l", "e">> }

\* two strings that differ in the case of their letters only
SameIgnoringCase(a, b) ==
    /\ Len(a) = Len(b)
    /\ \A i \in 1..Len(a) :
           \/ a[i] = b[i]
           \/ a[i] \in DOMAIN UpperToLower /\ UpperToLower[a[i]] = b[i]
           \/ b[i] \in DOMAIN UpperToLower /\ UpperToLower[b[i]] = a[i]

\* the category the claim gives a recorded sex value
ResolvedSex(raw) ==
    IF \E w \in MaleWords : SameIgnoringCase(raw, w) THEN "hombre"
    ELSE IF \E w \in FemaleWords : SameIgnoringCase(raw, w) THEN "mujer"
    ELSE "otro"

\* C13: sex resolution is total and ignores case: 1, hombre, m, male give the
\* male category, 2, mujer, f, female the female one, and every other value,
\* a missing or empty one included, the generic one; the metric of the
\* measurement is classified with the ranges of that category whatever it is.
C13_SexResolution ==
    pc = "done" =>
        \A k \in 1..Len(measurements) :
            LET m == measurements[k]
                section == report[1].sections[k]
                raw == IF "Género" \in DOMAIN m THEN m["Género"] ELSE <<>>
            IN  /\ section.sexo = ResolvedSex(raw)
                /\ section.grasa # Absent => section.grasa[1].ranges = GrasaRanges(ResolvedSex(raw))
                /\ section.musc # Absent => section.musc[1].ranges = MuscRanges(ResolvedSex(raw))
                /\ section.agua # Absent => section.agua[1].ranges = AguaRanges(ResolvedSex(raw))
                /\ \A metric \in ClassifiedMetrics :
                       (metric \in DOMAIN m /\ PlainDecimal(m[metric]))
                           => BarOf(section, metric) # Absent

\* C13 witness: a measurement whose sex is recorded as HOMBRE and whose body
\* fat is classified with the male ranges.
C13_Witness ==
    /\ pc = "done"
    /\ OptGet(measurements[1], "Género") = Some(<<"H", "O", "M", "B", "R", "E">>)
    /\ report[1].sections[1].sexo = "hombre"
    /\ report[1].sections[1].grasa # Absent
    /\ report[1].sections[1].grasa[1].ranges = <<Rg(0, 8), Rg(8, 20), Rg(20, 25), Rg(25, 45)>>

\* ranges that are ordered and contiguous, with one label each
IsPartition(ranges, labels) ==
    /\ Len(ranges) >= 1
    /\ Len(labels) = Len(ranges)
    /\ \A i \in 1..Len(ranges) : ranges[i][1] < ranges[i][2]
    /\ \A i \in 1..(Len(ranges) - 1) : ranges[i][2] = ranges[i + 1][1]

\* C20: for every metric and every sex category the ranges are an ordered,
\* contiguous, non-overlapping partition with exactly one label per range,
\* and so are the ranges and the rectangles of every bar of a report.
C20_RangesArePartitions ==
    /\ \A sexo \in SexCategories :
           /\ IsPartition(GrasaRanges(sexo), GrasaLabels)
           /\ IsPartition(MuscRanges(sexo), MuscLabels)
           /\ IsPartition(AguaRanges(sexo), AguaLabels)
    /\ IsPartition(ImcRanges, ImcLabels)
    /\ IsPartition(VisceralRanges, VisceralLabels)
    /\ pc = "done" =>
           \A k \in 1..Len(report[1].sections) : \A bar \in BarsOf(report[1].sections[k]) :
               /\ IsPartition(bar[1].ranges, bar[1].labels)
               /\ \A i \in 1..(Len(bar[1].ranges) - 1) :
                      bar[1].image.barh[i].left + bar[1].image.barh[i].width
                          = bar[1].image.barh[i + 1].left

\* C20 witness: the muscle bar of a woman, with its four contiguous ranges.
C20_Witness ==
    /\ pc = "done"
    /\ report[1].sections[1].sexo = "mujer"
    /\ report[1].sections[1].musc # Absent
    /\ report[1].sections[1].musc[1].ranges = <<Rg(0, 30), Rg(30, 36), Rg(36, 42), Rg(42, 60)>>
    /\ report[1].sections[1].musc[1].labels = <<"Muy baja", "Baja", "Óptima", "Alta">>

\* C14: parse_csv_file on a path that does not exist reports it and returns:
\* the step that prints the message changes neither collection, opens nothing
\* and leaves the run where the next file can be parsed.
C14_MissingFileIsReported ==
    [][(printed' = "Error: El archivo no existe" /\ printed' # printed)
        => /\ measurements' = measurements
           /\ profiles' = profiles
           /\ pc = "main" /\ pc' = "main"
           /\ openFiles' = openFiles
           /\ frame' = frame
           /\ report' = report]_vars

\* C14 witness: nothing was retained when a missing file was reported, the
\* last thing printed; the file parsed after it is open and its first row has
\* been added to the measurements.
C14_Witness ==
    /\ printed = "Error: El archivo no existe"
    /\ pc = "reading"
    /\ frame[1].row_num = 1
    /\ frame[1].file_type = "measurement"
    /\ ~ShortRow(frame[1].row[1])
    /\ Len(measurements) = 1 /\ measurements[1]["raw_data"] = frame[1].row[1]
    /\ profiles = <<>>

\* C15: the measurement sections of the report are in chronological order:
\* the i-th section is that of the i-th measurement of the sorter's output.
C15_SectionsChronological ==
    pc = "done" =>
        LET s == get_sorted_measurements(measurements)
        IN  /\ Len(report[1].sections) = Len(s)
            /\ \A i \in 1..Len(s) : report[1].sections[i] = Section(s[i])

\* C16: every qualifying row of a profile file is retained under the identity
\* of its file and row index with its tokens as they were read, it does not
\* take the place of a row of another file or another row index, and it adds
\* nothing to the measurements (as long as no file has failed to be read).
C16_ProfileRowsRetained ==
    [][(pc = "reading" /\ frame[1].file_type = "profile" /\ frame' # <<>> /\ frame' # frame
            /\ ~ShortRow(frame'[1].row[1]) /\ printed # "Error leyendo")
        => LET identity == <<frame[1].file_path, frame[1].row_num>>
               key == profile_key(frame[1].file_path, frame[1].row_num)
           IN  /\ key \in DOMAIN profiles'
               /\ profiles'[key].data = frame'[1].row[1]
               /\ measurements' = measurements
               /\ \A k \in DOMAIN profiles :
                      /\ k \in DOMAIN profiles'
                      /\ owners[k] # identity => (owners'[k] = owners[k] /\ profiles'[k] = profiles[k])]_vars

\* C18: a measurement, once appended, is never changed: every step keeps the
\* measurements there are, in their order, and at most appends after them; the
\* report is generated without changing the collection at all.
C18_MeasurementsOnlyAppended ==
    [][/\ Len(measurements') >= Len(measurements)
       /\ \A i \in 1..Len(measurements) : measurements'[i] = measurements[i]
       /\ pc' = "done" => measurements' = measurements]_vars

\* C18 witness: the report has been generated over two measurements that are
\* not in chronological order, and they are still as they were appended.
C18_Witness ==
    /\ pc = "done"
    /\ report # <<>>
    /\ Len(measurements) = 2
    /\ get_sorted_measurements(measurements) = <<measurements[2], measurements[1]>>
    /\ measurements[1] # measurements[2]
    /\ measurements[1]["row"] = 1 /\ measurements[2]["row"] = 2

\* C19: at most one input file is open at any time: a file is open only while
\* parse_csv_file reads it, and it is closed on every way out, a failure
\* part-way included, before another one is opened.
C19_OneFileOpen ==
    /\ Cardinality(openFiles) <= 1
    /\ pc = "reading" => openFiles = {frame[1].file_path}
    /\ pc # "reading" => openFiles = {}

\* C19 witness: a file is open and being read after the reading of an earlier
\* file, of which a row was retained, ended with an error.
C19_Witness ==
    /\ pc = "reading"
    /\ printed = "Error leyendo"
    /\ frame[1].row_num = 0
    /\ openFiles = {frame[1].file_path}
    /\ Len(measurements) = 1
    /\ measurements[1]["file"] # basename(frame[1].file_path)

\* the result of the lenient normalization of a field of a measurement
Normalized(measurement, field) == FloatPctComma(OptGet(measurement, field))

\* C17: the same normalization is used wherever a value is used in
\* arithmetic: the five classifications, the comparison table, the comparison
\* charts, the segment radars and the composition chart each have the number
\* the normalization gives, or nothing where it gives none, and never a
\* substitute number.
C17_UniformNormalization ==
    pc = "done" =>
        /\ \A k \in 1..Len(measurements) :
               LET m == measurements[k]
                   section == report[1].sections[k]
               IN  /\ \A metric \in ClassifiedMetrics :
                          /\ (BarOf(section, metric) = Absent)
                                 <=> (Normalized(m, metric) = Absent)
                          /\ BarOf(section, metric) # Absent =>
                                 Normalized(m, metric) = Some(BarOf(section, metric)[1].value)
                   /\ \A radar \in {<<section.fat_radar, fat_keys>>,
                                     <<section.muscle_radar, muscle_keys>>} :
                          radar[1] # Absent =>
                              \A i \in 1..Len(radar[2]) :
                                  Normalized(m, radar[2][i]) = Some(radar[1][1][i])
        /\ report[1].comparison # Absent =>
               LET c == report[1].comparison[1]
                   prev == c.prev_measurement
                   last == c.last_measurement
                   charts == <<c.weight_comparison, c.imc_comparison>>
               IN  /\ \A k \in 1..Len(comparison_fields) :
                          (c.table[k].diff # Absent) <=> ~Fails(prev, last, comparison_fields[k])
                   /\ \A k \in 1..2 :
                          (charts[k] # Absent) <=> ~Fails(prev, last, comparison_fields[k])
                   /\ c.composition # Absent =>
                          \A i \in 1..Len(composition_keys) :
                              /\ Normalized(prev, composition_keys[i]) = Some(c.composition[1].prev[i])
                              /\ Normalized(last, composition_keys[i]) = Some(c.composition[1].last[i])

\* the measurement as it is with another recorded sex
WithSex(measurement, genero) == SetItem(measurement, "Género", genero)

\* a recorded sex of each category
SexSamples == { <<"1">>, <<"2">>, <<"x">> }

\* the BMI bar and the visceral fat bar of a measurement do not depend on its sex
SexIndependent(measurement, section) ==
    /\ {Section(WithSex(measurement, genero)).sexo : genero \in SexSamples} = SexCategories
    /\ \A genero \in SexSamples :
           /\ Section(WithSex(measurement, genero)).imc = section.imc
           /\ Section(WithSex(measurement, genero)).visceral = section.visceral

\* C21 as stated: the BMI bar and the visceral fat bar are the same for male,
\* female and generic, and each of the two metrics has three categories.
C21_SexIndependentThreeCategories ==
    pc = "done" =>
        \A k \in 1..Len(measurements) :
            LET section == report[1].sections[k]
            IN  /\ SexIndependent(measurements[k], section)
                /\ section.imc # Absent =>
                       Len(section.imc[1].ranges) = 3 /\ Len(section.imc[1].labels) = 3
                /\ section.visceral # Absent =>
                       Len(section.visceral[1].ranges) = 3 /\ Len(section.visceral[1].labels) = 3

\* C21 amended: the BMI bar and the visceral fat bar are the same for male,
\* female and generic; BMI has the same four categories (below 18.5, 25, 30
\* and 40) and visceral fat the same three (from 1 to 10, 15 and 30) whatever
\* the sex.
C21_SexIndependent ==
    pc = "done" =>
        \A k \in 1..Len(measurements) :
            LET section == report[1].sections[k]
            IN  /\ SexIndependent(measurements[k], section)
                /\ section.imc # Absent =>
                       /\ section.imc[1].ranges
                              = << <<0, 185 * Pow10(Scale - 1)>>,
                                   <<185 * Pow10(Scale - 1), 25 * Unit>>,
                                   <<25 * Unit, 30 * Unit>>, <<30 * Unit, 40 * Unit>> >>
                       /\ section.imc[1].labels
                              = <<"Bajo peso", "Normal", "Sobrepeso", "Obesidad">>
                /\ section.visceral # Absent =>
                       /\ section.visceral[1].ranges
                              = << <<1 * Unit, 10 * Unit>>, <<10 * Unit, 15 * Unit>>,
                                   <<15 * Unit, 30 * Unit>> >>
                       /\ section.visceral[1].labels = <<"Óptima", "Alta", "Muy alta">>

\* C21 witness: a woman's BMI of 25,00 is on a bar with the four BMI ranges.
C21_Witness ==
    /\ pc = "done"
    /\ report[1].sections[1].sexo = "mujer"
    /\ report[1].sections[1].imc # Absent
    /\ report[1].sections[1].imc[1].value = Dec(25, 0)
    /\ Len(report[1].sections[1].imc[1].ranges) = 4

\* the codes of a row that the Code Table does not hold
UnknownCodes(row) ==
    {strip(row[i]) : i \in PairIndices(row)} \ {h \in {strip(row[i]) : i \in PairIndices(row)} :
                                                  Str(h) \in DOMAIN TANITA_MAPPINGS}

\* C22: in every decoded measurement the entries file, row and raw_data are
\* those written at creation, whatever codes the row holds: no pair of the row
\* is stored under one of the three keys, the key of an unknown code is
\* neither one of the three keys nor a Code Table name, no Code Table name is
\* one of the three keys, and two different codes of the Code Table never
\* have the same name.
C22_ProvenanceNeverOverwritten ==
    /\ \A c1, c2 \in DOMAIN TANITA_MAPPINGS :
           TANITA_MAPPINGS[c1] = TANITA_MAPPINGS[c2] => c1 = c2
    /\ \A c \in DOMAIN TANITA_MAPPINGS : TANITA_MAPPINGS[c] \notin ProvenanceKeys
    /\ \A n \in 1..Len(measurements) :
           LET m == measurements[n]
               row == frame[1].row[1]
           IN  /\ \A i \in PairIndices(row) : FieldKey(strip(row[i])) \notin ProvenanceKeys
               /\ \A h \in UnknownCodes(row) :
                      FieldKey(h) \notin Range(TANITA_MAPPINGS) \cup ProvenanceKeys
               /\ ProvenanceKeys \subseteq DOMAIN m
               /\ m["file"] = basename(frame[1].file_path)
               /\ m["row"] = frame[1].row_num
               /\ m["raw_data"] = row

\* C22 witness: a row with the codes file and raw_data was decoded; the two
\* pairs are stored under Unknown_ keys.
C22_Witness ==
    /\ Len(measurements) = 1
    /\ {"Unknown_file", "Unknown_raw_data"} \subseteq DOMAIN measurements[1]
    /\ measurements[1]["file"] = "T1.CSV"
    /\ measurements[1]["Unknown_file"] = <<"8", "1">>

\* C23: when the reading of a file fails part-way, parse_csv_file catches
\* the exception and returns: the step that leaves the file with the error
\* message keeps every measurement and every profile row there is, those of
\* the failed file's earlier rows and those of earlier files alike, closes the
\* file, and leaves the run where the next file is parsed.
C23_FailedReadKeepsDecoded ==
    [][(pc = "reading" /\ frame' = <<>> /\ printed' = "Error leyendo")
        => /\ pc' = "main"
           /\ measurements' = measurements
           /\ profiles' = profiles
           /\ report' = report
           /\ openFiles' = {}]_vars

\* C23 witness: after an error was printed, a later file is being read and
\* its first row has been appended after the measurement of an earlier file.
C23_Witness ==
    /\ pc = "reading"
    /\ printed = "Error leyendo"
    /\ frame[1].row_num = 1
    /\ frame[1].file_path = Path("a", "T2.CSV")
    /\ Len(measurements) = 2
    /\ measurements[1]["file"] = "T1.CSV" /\ measurements[1]["row"] = 1
    /\ measurements[2]["file"] = "T2.CSV" /\ measurements[2]["row"] = 1
    /\ measurements[2]["raw_data"] = frame[1].row[1]

=============================================================================
